---- MODULE Spec2Model ----
(***************************************************************************)
(* Model of batch_renamer (src/src/main.rs): rename_files_swapped walks a  *)
(* directory, splits the stem of every file with a listed extension at the *)
(* split separator, and renames the file to the swapped pieces.            *)
(*                                                                         *)
(* A file name is a sequence of one-character strings.  The file system is *)
(* a root directory holding files and at most one subdirectory, which      *)
(* holds files.  stdout and the file-system calls are recorded in `out`    *)
(* and `ops`.                                                              *)
(***************************************************************************)
EXTENDS Integers, Sequences, FiniteSets, TLC

(* ------------------------------ bounds -------------------------------- *)
MaxLen == 3     \* longest stem enumerated by InitOne
MaxFiles == 2   \* most files in the whole tree under Init
MaxRelist == 1  \* times read_dir may hand out a name created by a rename

(* ------------------------------ strings ------------------------------- *)
Dot == "."
Space == " "

\* str::trim: strip leading and trailing whitespace.
RECURSIVE TrimStart(_)
TrimStart(s) == IF s # <<>> /\ Head(s) = Space THEN TrimStart(Tail(s)) ELSE s

RECURSIVE TrimEnd(_)
TrimEnd(s) ==
    IF s # <<>> /\ s[Len(s)] = Space THEN TrimEnd(SubSeq(s, 1, Len(s) - 1)) ELSE s

Trim(s) == TrimEnd(TrimStart(s))

\* Start positions at which pat occurs in s.
Matches(s, pat) ==
    {i \in 1..(Len(s) - Len(pat) + 1) : SubSeq(s, i, i + Len(pat) - 1) = pat}

Max(S) == CHOOSE x \in S : \A y \in S : y <= x

\* str::rsplit(pat): every non-overlapping match, searched from the end of
\* the string; the pieces come out last first.
RECURSIVE RSplitAll(_, _)
RSplitAll(s, pat) ==
    IF Matches(s, pat) = {} THEN <<s>>
    ELSE LET i == Max(Matches(s, pat))
         IN  <<SubSeq(s, i + Len(pat), Len(s))>> \o RSplitAll(SubSeq(s, 1, i - 1), pat)

\* Only the last match is cut (str::rsplitn(2, pat)).
RSplitLast(s, pat) ==
    IF Matches(s, pat) = {} THEN <<s>>
    ELSE LET i == Max(Matches(s, pat))
         IN  <<SubSeq(s, i + Len(pat), Len(s)), SubSeq(s, 1, i - 1)>>

RSplit(s, pat) == RSplitAll(s, pat)

\* The pieces as cut, not trimmed.
NoTrimPieces(stem, old_sep) == RSplit(stem, old_sep)

\* file_stem.rsplit(&old_sep).map(|s| s.trim()).collect()

Pieces(stem, old_sep) ==
    LET raw == RSplit(stem, old_sep)
    IN  [k \in 1..Len(raw) |-> Trim(raw[k])]

\* [&str]::join(sep)
RECURSIVE Join(_, _)
Join(parts, sep) ==
    IF parts = <<>> THEN <<>>
    ELSE IF Len(parts) = 1 THEN parts[1]
    ELSE parts[1] \o sep \o Join(Tail(parts), sep)

\* Path::extension / Path::file_stem: the name is cut at its last dot; a name
\* without a dot, or whose only dot is its first character, has no extension.
LastDot(name) == Max(Matches(name, <<Dot>>))

HasExtension(name) == Matches(name, <<Dot>>) # {} /\ LastDot(name) > 1

Extension(name) == SubSeq(name, LastDot(name) + 1, Len(name))

FileStem(name) ==
    IF HasExtension(name) THEN SubSeq(name, 1, LastDot(name) - 1) ELSE name

\* A comparison that ignores case.
AnyCaseMatches(extensions, e) ==
    [k \in 1..Len(e) |-> IF e[k] = "M" THEN "m" ELSE e[k]] \in extensions

\* extensions.contains(&extension): exact comparison.

ExtensionMatches(extensions, e) == e \in extensions

\* The pieces joined by the separator alone.
UnpaddedName(pieces, ext, new_sep, padding) ==
    Join(pieces, new_sep) \o <<Dot>> \o ext

\* format!("{}{}{}", padding, new_sep, padding), join, then push ".ext".
NewFileName(pieces, ext, new_sep, padding) ==
    Join(pieces, padding \o new_sep \o padding) \o <<Dot>> \o ext

(* ---------------------------- file system ----------------------------- *)
Root == "root"
Sub == "sub"
Dirs == {Root, Sub}
NoDir == <<>>          \* the root has no subdirectory
NoResult == [ok |-> FALSE, n |-> -1]

VARIABLES
    files,      \* files[d]: names of the regular files in directory d
    subName,    \* name of the root's subdirectory, or NoDir
    cfg,        \* extensions, old_sep, new_sep, padding, recursive
    stack,      \* call stack of rename_files_swapped, innermost last
    err,        \* an io::Error is propagating through the `?` operators
    pc,         \* "idle", "running" or "done"
    result,     \* what the outermost call returned
    out,        \* lines printed by rename_files_swapped
    ops,        \* file-system calls made so far, with their outcome
    relists,    \* names created by a rename that read_dir handed out
    fs0         \* files when the program started

vars == <<files, subName, cfg, stack, err, pc, result, out, ops, relists, fs0>>

Top == stack[Len(stack)]

\* fs::read_dir(directory): the entries of the directory.
Entries(d) == IF d = Root /\ subName # NoDir THEN files[d] \cup {subName} ELSE files[d]

\* path.is_dir()
IsDir(d, p) == d = Root /\ p = subName

\* lines 69-72: the file has an extension and it is one of `extensions`.
Matched(p) == HasExtension(p) /\ ExtensionMatches(cfg.extensions, Extension(p))

\* lines 73-77
Filenames(p) == Pieces(FileStem(p), cfg.old_sep)

\* lines 85-92: the file name of new_path (the parent stays the same).
NewName(p) == NewFileName(Filenames(p), Extension(p), cfg.new_sep, cfg.padding)

Frame(d) == [dir |-> d, pos |-> "call", paths |-> {}, files_renamed |-> 0]

SetTop(f) == [stack EXCEPT ![Len(stack)] = f]

Running == pc = "running" /\ ~err /\ stack # <<>>

InLoop == Running /\ Top.pos = "loop"

(* ------------------------------ actions ------------------------------- *)
\* main, lines 121-122: the program is invoked on the tree.
Start ==
    /\ pc = "idle"
    /\ pc' = "running"
    /\ stack' = <<Frame(Root)>>
    /\ err' = FALSE
    /\ result' = NoResult
    /\ UNCHANGED <<files, subName, cfg, out, ops, relists, fs0>>

\* line 56: read_dir succeeds.
ReadDirOk ==
    /\ Running /\ Top.pos = "call"
    /\ stack' = SetTop([Top EXCEPT !.pos = "loop", !.paths = Entries(Top.dir)])
    /\ ops' = Append(ops, [op |-> "read_dir", dir |-> Top.dir, old |-> <<>>,
                           new |-> <<>>, ok |-> TRUE])
    /\ UNCHANGED <<files, subName, cfg, err, pc, result, out, relists, fs0>>

\* line 56: read_dir fails and `?` returns the error.
ReadDirErr ==
    /\ Running /\ Top.pos = "call"
    /\ err' = TRUE
    /\ ops' = Append(ops, [op |-> "read_dir", dir |-> Top.dir, old |-> <<>>,
                           new |-> <<>>, ok |-> FALSE])
    /\ UNCHANGED <<files, subName, cfg, stack, pc, result, out, relists, fs0>>

\* line 60: the iterator yields an error.
EntryErr ==
    /\ InLoop /\ Top.paths # {}
    /\ err' = TRUE
    /\ ops' = Append(ops, [op |-> "next_entry", dir |-> Top.dir, old |-> <<>>,
                           new |-> <<>>, ok |-> FALSE])
    /\ UNCHANGED <<files, subName, cfg, stack, pc, result, out, relists, fs0>>

\* lines 61-66, recursive: call rename_files_swapped on the subdirectory.
EnterDir ==
    /\ InLoop
    /\ \E p \in Top.paths :
        /\ IsDir(Top.dir, p)
        /\ cfg.recursive
        /\ stack' = Append(SetTop([Top EXCEPT !.paths = @ \ {p}]), Frame(Sub))
    /\ UNCHANGED <<files, subName, cfg, err, pc, result, out, ops, relists, fs0>>

\* A walk that descends whatever the flag says.
SkipDirDescends ==
    /\ InLoop
    /\ \E p \in Top.paths :
        /\ IsDir(Top.dir, p)
        /\ ~cfg.recursive
        /\ stack' = Append(SetTop([Top EXCEPT !.paths = @ \ {p}]), Frame(Sub))
    /\ UNCHANGED <<files, subName, cfg, err, pc, result, out, ops, relists, fs0>>

\* lines 61-66, not recursive: continue.
SkipDir ==
    /\ InLoop
    /\ \E p \in Top.paths :
        /\ IsDir(Top.dir, p)
        /\ ~cfg.recursive
        /\ stack' = SetTop([Top EXCEPT !.paths = @ \ {p}])
    /\ UNCHANGED <<files, subName, cfg, err, pc, result, out, ops, relists, fs0>>

\* lines 69-72 and 100: no extension, or not a listed one.
SkipExtension ==
    /\ InLoop
    /\ \E p \in Top.paths :
        /\ ~IsDir(Top.dir, p)
        /\ ~Matched(p)
        /\ stack' = SetTop([Top EXCEPT !.paths = @ \ {p}])
    /\ UNCHANGED <<files, subName, cfg, err, pc, result, out, ops, relists, fs0>>

\* An unsplittable stem treated as an error.
SkipNameAborts ==
    /\ InLoop
    /\ \E p \in Top.paths :
        /\ ~IsDir(Top.dir, p)
        /\ Matched(p)
        /\ Len(Filenames(p)) # 2
        /\ out' = Append(out, [kind |-> "Skipping", dir |-> Top.dir, old |-> p,
                               new |-> <<>>])
        /\ err' = TRUE
    /\ UNCHANGED <<files, subName, cfg, stack, pc, result, ops, relists, fs0>>

\* lines 80-83: the stem did not split in two.
SkipName ==
    /\ InLoop
    /\ \E p \in Top.paths :
        /\ ~IsDir(Top.dir, p)
        /\ Matched(p)
        /\ Len(Filenames(p)) # 2
        /\ out' = Append(out, [kind |-> "Skipping", dir |-> Top.dir, old |-> p,
                               new |-> <<>>])
        /\ stack' = SetTop([Top EXCEPT !.paths = @ \ {p}])
    /\ UNCHANGED <<files, subName, cfg, err, pc, result, ops, relists, fs0>>

\* fs::rename replaces an existing file; it fails on a directory.
RenameAllowed(d, new) == ~IsDir(d, new)

\* lines 85-98: the rename succeeds.  read_dir reads the directory lazily, so
\* it may or may not hand out the name the rename has just created.
RenameOk ==
    /\ InLoop
    /\ \E p \in Top.paths :
        /\ ~IsDir(Top.dir, p)
        /\ Matched(p)
        /\ Len(Filenames(p)) = 2
        /\ RenameAllowed(Top.dir, NewName(p))
        /\ out' = Append(out, [kind |-> "Renaming", dir |-> Top.dir, old |-> p,
                               new |-> NewName(p)])
        /\ ops' = Append(ops, [op |-> "rename", dir |-> Top.dir, old |-> p,
                               new |-> NewName(p), ok |-> TRUE])
        /\ files' = [files EXCEPT ![Top.dir] = (@ \ {p}) \cup {NewName(p)}]
        /\ \/ /\ stack' = SetTop([Top EXCEPT !.paths = @ \ {p},
                                             !.files_renamed = @ + 1])
              /\ relists' = relists
           \/ /\ relists < MaxRelist
              /\ NewName(p) \notin Top.paths
              /\ stack' = SetTop([Top EXCEPT !.paths = (@ \ {p}) \cup {NewName(p)},
                                             !.files_renamed = @ + 1])
              /\ relists' = relists + 1
    /\ UNCHANGED <<subName, cfg, err, pc, result, fs0>>

\* lines 85-96: the rename fails and `?` returns the error.
RenameErr ==
    /\ InLoop
    /\ \E p \in Top.paths :
        /\ ~IsDir(Top.dir, p)
        /\ Matched(p)
        /\ Len(Filenames(p)) = 2
        /\ out' = Append(out, [kind |-> "Renaming", dir |-> Top.dir, old |-> p,
                               new |-> NewName(p)])
        /\ ops' = Append(ops, [op |-> "rename", dir |-> Top.dir, old |-> p,
                               new |-> NewName(p), ok |-> FALSE])
        /\ err' = TRUE
    /\ UNCHANGED <<files, subName, cfg, stack, pc, result, relists, fs0>>

\* A caller that ignores the count of the nested call.
ReturnDropsNested ==
    /\ InLoop /\ Top.paths = {}
    /\ IF Len(stack) = 1
       THEN /\ stack' = <<>>
            /\ pc' = "done"
            /\ result' = [ok |-> TRUE, n |-> Top.files_renamed]
       ELSE /\ stack' = SubSeq(stack, 1, Len(stack) - 1)
            /\ UNCHANGED <<pc, result>>
    /\ UNCHANGED <<files, subName, cfg, err, out, ops, relists, fs0>>

\* line 103, and lines 63-64 in the caller: Ok(files_renamed).
Return ==
    /\ InLoop /\ Top.paths = {}
    /\ IF Len(stack) = 1
       THEN /\ stack' = <<>>
            /\ pc' = "done"
            /\ result' = [ok |-> TRUE, n |-> Top.files_renamed]
       ELSE /\ stack' = [SubSeq(stack, 1, Len(stack) - 1)
                           EXCEPT ![Len(stack) - 1].files_renamed = @ + Top.files_renamed]
            /\ UNCHANGED <<pc, result>>
    /\ UNCHANGED <<files, subName, cfg, err, out, ops, relists, fs0>>

\* A caller that swallows the error of the nested call and goes on.
PropagateSwallows ==
    /\ pc = "running" /\ err
    /\ IF Len(stack) = 1
       THEN /\ stack' = <<>>
            /\ pc' = "done"
            /\ result' = [ok |-> FALSE, n |-> 0]
            /\ err' = err
       ELSE /\ stack' = SubSeq(stack, 1, Len(stack) - 1)
            /\ err' = FALSE
            /\ UNCHANGED <<pc, result>>
    /\ UNCHANGED <<files, subName, cfg, out, ops, relists, fs0>>

\* `?` on lines 56, 60, 64 and 96: the error leaves one call; main's expect
\* ends the program when it leaves the outermost one.
Propagate ==
    /\ pc = "running" /\ err
    /\ IF Len(stack) = 1
       THEN /\ stack' = <<>>
            /\ pc' = "done"
            /\ result' = [ok |-> FALSE, n |-> 0]
       ELSE /\ stack' = SubSeq(stack, 1, Len(stack) - 1)
            /\ UNCHANGED <<pc, result>>
    /\ UNCHANGED <<files, subName, cfg, err, out, ops, relists, fs0>>

Next ==
    \/ Start
    \/ ReadDirOk
    \/ ReadDirErr
    \/ EntryErr
    \/ EnterDir
    \/ SkipDir
    \/ SkipExtension
    \/ SkipName
    \/ RenameOk
    \/ RenameErr
    \/ Return
    \/ Propagate

(* --------------------------- initial states --------------------------- *)
Strs(Chars, n) == UNION {[1..k -> Chars] : k \in 0..n}

Mp3 == <<"m">>          \* the extension asked for
Dash == <<"-">>

\* The default separator, and a join separator with padding.
TreeSepPad == {[old_sep |-> Dash, new_sep |-> Dash, padding |-> <<>>],
               [old_sep |-> Dash, new_sep |-> <<Dot>>, padding |-> <<Space>>]}

\* Also padding alone, a join separator alone, a two-character separator.
SepPad == TreeSepPad \cup
          {[old_sep |-> Dash, new_sep |-> Dash, padding |-> <<Space>>],
           [old_sep |-> Dash, new_sep |-> <<Dot>>, padding |-> <<>>],
           [old_sep |-> <<"-", "-">>, new_sep |-> <<"-", "-">>, padding |-> <<>>]}

Config(sp, rec) ==
    [extensions |-> {Mp3}, old_sep |-> sp.old_sep, new_sep |-> sp.new_sep,
     padding |-> sp.padding, recursive |-> rec]

\* Names of a small tree: a swappable pair that collides, an unsplittable
\* stem, a wrong and an upper-case extension.
TreeNames == {<<"a", "-", "b", ".", "m">>, <<"b", "-", "a", ".", "m">>,
              <<"a", "b", ".", "m">>, <<"a", "-", "b", ".", "t">>,
              <<"a", "-", "b", ".", "M">>}

DirNames == {<<"d">>, <<"b", "-", "a", ".", "m">>}

\* Every name with a stem of at most MaxLen characters.
StemChars == {"a", "b", "-", Space, Dot}

Suffixes == {<<>>, <<Dot, "m">>, <<Dot, "t">>}

AllNames ==
    {st \o sx : st \in Strs(StemChars, MaxLen), sx \in Suffixes}
        \ {<<>>, <<Dot>>, <<Dot, Dot>>}

\* Longer names: a stem with two separators, and one padded with spaces.
LongNames == {<<"a", "-", "b", "-", "c", ".", "m">>,
              <<"a", Space, "-", Space, "b", ".", "m">>}

Fresh ==
    /\ stack = <<>>
    /\ err = FALSE
    /\ pc = "idle"
    /\ result = NoResult
    /\ out = <<>>
    /\ ops = <<>>
    /\ relists = 0
    /\ fs0 = files

\* A tree of at most MaxFiles files in the root and its subdirectory.
InitTree ==
    /\ subName \in DirNames \cup {NoDir}
    /\ files \in [Dirs -> SUBSET TreeNames]
    /\ Cardinality(files[Root]) + Cardinality(files[Sub]) <= MaxFiles
    /\ subName \notin files[Root]
    /\ subName = NoDir => files[Sub] = {}
    /\ cfg \in {Config(sp, rec) : sp \in TreeSepPad, rec \in BOOLEAN}
    /\ Fresh

\* A directory holding one file, of any name.
InitOne ==
    /\ subName = NoDir
    /\ \E name \in AllNames \cup LongNames : files = [d \in Dirs |-> IF d = Root THEN {name} ELSE {}]
    /\ cfg \in {Config(sp, FALSE) : sp \in SepPad}
    /\ Fresh

Init == InitTree \/ InitOne

Spec == Init /\ [][Next]_vars

(* ------------------------- reading the history ------------------------ *)
Renames == {k \in DOMAIN ops : ops[k].op = "rename" /\ ops[k].ok}

Failed == \E k \in DOMAIN ops : ~ops[k].ok

Notices(d, p) == {k \in DOMAIN out : out[k].dir = d /\ out[k].old = p}

Occurrences(stem) == Cardinality(Matches(stem, cfg.old_sep))

\* The directories a complete run lists.
Visited(d) == d = Root \/ (cfg.recursive /\ subName # NoDir)

FinishedOk == pc = "done" /\ result.ok

\* The two parts of a stem around the separator that starts at position i.
PartA(stem, i) == SubSeq(stem, 1, i - 1)

PartB(stem, i) == SubSeq(stem, i + Len(cfg.old_sep), Len(stem))

Swapped(p, i) ==
    Trim(PartB(FileStem(p), i)) \o cfg.padding \o cfg.new_sep \o cfg.padding
        \o Trim(PartA(FileStem(p), i)) \o <<Dot>> \o Extension(p)

\* The name ends in "." and one of the extensions asked for, letter for letter.
Listed(p) == HasExtension(p) /\ Extension(p) \in cfg.extensions

OneSeparator(p) == Listed(p) /\ Occurrences(FileStem(p)) = 1

ManySeparators(p) == Listed(p) /\ Occurrences(FileStem(p)) >= 2

NoSeparator(p) == Listed(p) /\ Occurrences(FileStem(p)) = 0

(* ------------------------------- claims ------------------------------- *)
\* C1: a visited file with a listed extension whose stem is A<split>B, the
\* separator occurring once, is renamed in its own directory to
\* trim(B) + padding + join + padding + trim(A) + "." + ext.
C1_SwapCorrectness ==
    /\ \A k \in DOMAIN out :
          OneSeparator(out[k].old) =>
              /\ out[k].kind = "Renaming"
              /\ out[k].new = Swapped(out[k].old, CHOOSE i \in Matches(FileStem(out[k].old), cfg.old_sep) : TRUE)
    /\ \A k \in DOMAIN ops :
          (ops[k].op = "rename" /\ OneSeparator(ops[k].old)) =>
              ops[k].new = Swapped(ops[k].old, CHOOSE i \in Matches(FileStem(ops[k].old), cfg.old_sep) : TRUE)
    /\ (ops # <<>> /\ Len(ops) \in Renames) =>
          LET r == ops[Len(ops)]
          IN  /\ r.new \in files[r.dir]
              /\ r.old # r.new => r.old \notin files[r.dir]
    /\ FinishedOk =>
          \A d \in Dirs : \A p \in fs0[d] :
              (Visited(d) /\ OneSeparator(p)) =>
                  \E k \in Notices(d, p) : out[k].kind = "Renaming"

\* song-title.mp3 has become `title - song.mp3` (padding " ").
C1_Witness ==
    /\ FinishedOk
    /\ cfg.padding = <<Space>>
    /\ fs0[Root] = {<<"a", "-", "b", ".", "m">>}
    /\ files[Root] = {<<"b", Space, "-", Space, "a", ".", "m">>}

\* Both parts around the separator at position i have something in them.
BothParts(p, i) ==
    Trim(PartA(FileStem(p), i)) # <<>> /\ Trim(PartB(FileStem(p), i)) # <<>>

C3_NoEmptyPart ==
    /\ \A k \in DOMAIN ops :
          ops[k].op = "rename" =>
              \A j \in DOMAIN Filenames(ops[k].old) : Filenames(ops[k].old)[j] # <<>>
    /\ \A k \in DOMAIN out :
          (Listed(out[k].old) /\ \E j \in DOMAIN Filenames(out[k].old) :
                                     Filenames(out[k].old)[j] = <<>>)
              => out[k].kind = "Skipping"

\* -title.m has been renamed to title-.m.
C3_EmptyPartRenamed ==
    \E k \in Renames : \E j \in DOMAIN Filenames(ops[k].old) :
        Filenames(ops[k].old)[j] = <<>>

RECURSIVE SumRenamed(_)
SumRenamed(st) ==
    IF st = <<>> THEN 0 ELSE st[Len(st)].files_renamed + SumRenamed(SubSeq(st, 1, Len(st) - 1))

\* C4: Ok(n) carries exactly the number of renames that succeeded during
\* the call: those of its own level plus what the nested calls returned.
\* While the calls run, their counters add up to the renames done so far.
C4_CountAggregation ==
    /\ FinishedOk => result.n = Cardinality(Renames)
    /\ (pc = "running" /\ ~err) => SumRenamed(stack) = Cardinality(Renames)
    /\ (pc = "running" /\ ~err) =>
          \A i \in DOMAIN stack :
              stack[i].files_renamed >=
                  Cardinality({k \in Renames : ops[k].dir = stack[i].dir})

\* One rename in the root and one in the subdirectory: Ok(2).
C4_Witness ==
    /\ FinishedOk
    /\ result.n = 2
    /\ \E k \in Renames : ops[k].dir = Root
    /\ \E k \in Renames : ops[k].dir = Sub
    /\ \E k \in DOMAIN out : out[k].kind = "Skipping"

\* C5: after the first fatal error (a listing or a rename that fails) no
\* further rename is attempted at any level, nothing is printed or undone,
\* and the outermost call returns an error.
C5_NoCallAfterFailure ==
    /\ \A k \in DOMAIN ops : k < Len(ops) => ops[k].ok
    /\ Failed => err
    /\ (pc = "done" /\ Failed) => ~result.ok
    /\ err => (ops # <<>> /\ ~ops[Len(ops)].ok)

C5_FailFast ==
    /\ []C5_NoCallAfterFailure
    /\ [][Failed => (files' = files /\ ops' = ops /\ out' = out /\ ~FinishedOk')]_vars

\* A rename in the subdirectory failed after one had succeeded; the root
\* still had an entry to visit, and the run ended with an error.
C5_Witness ==
    /\ pc = "done" /\ ~result.ok
    /\ Renames # {}
    /\ ops[Len(ops)].op = "rename" /\ ops[Len(ops)].dir = Sub
    /\ \A k \in Renames : ops[k].new \in files[ops[k].dir]
    /\ \E p \in fs0[Root] : Listed(p) /\ Notices(Root, p) = {}

\* C6: without `recursive` the subdirectory is never listed, nothing in it
\* is renamed, printed or counted, and no nested call is made.
C6_NonRecursiveBoundary ==
    ~cfg.recursive =>
        /\ files[Sub] = fs0[Sub]
        /\ \A k \in DOMAIN ops : ops[k].dir = Root
        /\ \A k \in DOMAIN out : out[k].dir = Root
        /\ Len(stack) <= 1
        /\ FinishedOk =>
              result.n = Cardinality({k \in Renames : ops[k].dir = Root})

\* The subdirectory held a swappable file; the run renamed one file in the
\* root and left the subdirectory alone.
C6_Witness ==
    /\ ~cfg.recursive
    /\ FinishedOk
    /\ result.n = 1
    /\ subName # NoDir
    /\ \E p \in files[Sub] : OneSeparator(p)

\* C7: a file without an extension, or with one that is not exactly in
\* `extensions`, keeps its name: it is never the source or the target of a
\* rename, no notice mentions it, and it is not counted.
C7_ExtensionFilter ==
    /\ \A d \in Dirs : \A p \in fs0[d] :
          ~Listed(p) =>
              /\ p \in files[d]
              /\ Notices(d, p) = {}
              /\ \A k \in DOMAIN ops : ops[k].dir = d => (ops[k].old # p /\ ops[k].new # p)
    /\ \A k \in DOMAIN out : Listed(out[k].old)
    /\ \A k \in DOMAIN ops : ops[k].op = "rename" => (Listed(ops[k].old) /\ Listed(ops[k].new))
    /\ (FinishedOk /\ \A d \in Dirs : \A p \in fs0[d] : ~Listed(p)) => result.n = 0

\* a-b.M and a-b.m were both visited; only a-b.m was renamed.
C7_Witness ==
    /\ FinishedOk
    /\ result.n = 1
    /\ fs0[Root] = {<<"a", "-", "b", ".", "M">>, <<"a", "-", "b", ".", "m">>}
    /\ <<"a", "-", "b", ".", "M">> \in files[Root]
    /\ <<"a", "-", "b", ".", "m">> \notin files[Root]

\* C8: a file with a listed extension whose stem does not hold the
\* separator keeps its name; visiting it prints Skipping once, counts
\* nothing and raises no error, and the traversal goes on.
C8_SkipUnsplittable ==
    /\ \A d \in Dirs : \A p \in fs0[d] :
          NoSeparator(p) =>
              /\ p \in files[d]
              /\ \A k \in DOMAIN ops : ops[k].dir = d => ops[k].old # p
              /\ \A k \in Notices(d, p) : out[k].kind = "Skipping"
              /\ (\A k \in DOMAIN ops : ~(ops[k].dir = d /\ ops[k].new = p)) =>
                    Cardinality(Notices(d, p)) <= 1
              /\ (FinishedOk /\ Visited(d)) => Notices(d, p) # {}
    /\ \A k \in DOMAIN out :
          NoSeparator(out[k].old) => out[k].kind = "Skipping"
    /\ err => Failed
    /\ (FinishedOk /\ \A d \in Dirs : \A p \in fs0[d] : NoSeparator(p) \/ ~Listed(p)) =>
          result.n = 0

\* ab.m was skipped, then a-b.m was renamed, and the run returned Ok(1).
C8_Witness ==
    /\ FinishedOk
    /\ result.n = 1
    /\ Len(out) = 2
    /\ out[1] = [kind |-> "Skipping", dir |-> Root, old |-> <<"a", "b", ".", "m">>, new |-> <<>>]
    /\ out[2].kind = "Renaming"
    /\ <<"a", "b", ".", "m">> \in files[Root]

\* What a second application of the rename makes of a name.
SecondName(p) == IF Matched(p) /\ Len(Filenames(p)) = 2 THEN NewName(p) ELSE p

\* C9 (as stated): with join = split and the same padding, renaming the
\* renamed file again restores the original name (for a file renamed with
\* two non-empty pieces).
C9_OwnInverse ==
    cfg.new_sep = cfg.old_sep =>
        \A k \in Renames :
            (\A j \in DOMAIN Filenames(ops[k].old) : Filenames(ops[k].old)[j] # <<>>)
                => SecondName(ops[k].new) = ops[k].old

\* The stem is already trim(A) + padding + separator + padding + trim(B).
NormalForm(p) ==
    /\ Len(Filenames(p)) = 2
    /\ FileStem(p) = Filenames(p)[2] \o cfg.padding \o cfg.old_sep \o cfg.padding
                        \o Filenames(p)[1]

\* C9 (amended): with a one-character separator, join = split and the same
\* padding, renaming the renamed file again restores the original name when
\* the original stem already was trim(A) + padding + separator + padding +
\* trim(B).
C9_InverseOnNormalForm ==
    (cfg.new_sep = cfg.old_sep /\ Len(cfg.old_sep) = 1) =>
        /\ \A k \in Renames :
              NormalForm(ops[k].old) => SecondName(ops[k].new) = ops[k].old
        /\ \A k \in Renames : \A j \in Renames :
              (j = k + 1 /\ ops[j].dir = ops[k].dir /\ ops[j].old = ops[k].new
                 /\ NormalForm(ops[k].old)) => ops[j].new = ops[k].old

\* `a - b.m` was renamed with padding " " to `b - a.m`, handed out again by
\* read_dir, and renamed back.
C9_Witness ==
    /\ cfg.new_sep = cfg.old_sep /\ Len(cfg.old_sep) = 1
    /\ cfg.padding = <<Space>>
    /\ Cardinality(Renames) = 2
    /\ fs0[Root] = {<<"a", Space, "-", Space, "b", ".", "m">>}
    /\ files = fs0
    /\ \E k \in Renames : ops[k].new = <<"b", Space, "-", Space, "a", ".", "m">>

\* Files of the tree at the start that the run can rename.
Qualifying ==
    {<<d, p>> \in Dirs \X (fs0[Root] \cup fs0[Sub]) :
        p \in fs0[d] /\ Visited(d) /\ Listed(p) /\ Len(Filenames(p)) = 2}

\* C10 (as stated): within one run no file is renamed twice: a name made by
\* a rename is never the source of a later rename in that directory, and
\* Ok(n) never exceeds the number of qualifying files present at the start.
C10_RenamedAtMostOnce ==
    /\ \A k \in Renames : \A j \in Renames :
          (k < j /\ ops[j].dir = ops[k].dir) => ops[j].old # ops[k].new
    /\ FinishedOk => result.n <= Cardinality(Qualifying)

====
